---- MODULE Spec2Model ----
(***************************************************************************)
(* A model of TrimReads.py: the two quality trimmers                       *)
(* (trim_sequence_base, trim_sequence_window), the per-record loop of      *)
(* process_fastq with its statistics, and the argument handling of main.   *)
(*                                                                         *)
(* A read is a record [id, seq, quals]: seq is the sequence of residue     *)
(* symbols, quals the parallel sequence of integer quality scores          *)
(* (record.letter_annotations["phred_quality"]).  Python indices are       *)
(* 0-based; TLA+ sequences are 1-based, and PySlice does the conversion.   *)
(***************************************************************************)
EXTENDS Integers, Sequences, FiniteSets, TLC

\* ---------------------------------------------------------------- bounds
\* longest read given to a single trimmer call
MaxLen == 8
\* longest read in a file given to process_fastq
MaxPipeLen == 2
\* most records in a file given to process_fastq
MaxReads == 3
\* largest window_size given to a single trimmer call (0 is tried too)
MaxWindow == 3

\* quality scores that occur in the reads
QualValues == {10, 30}
\* thresholds tried on a single trimmer call
Thresholds == {20, 25, 30, 31}
\* thresholds and window sizes tried on the command line
CliThresholds == {20}
CliWindowSizes == {0, 2}

Alphabet == <<"A", "C", "G", "T">>

\* the residues of a read of length n: ACGTACGT...
Residues(n) == [i \in 1..n |-> Alphabet[((i - 1) % 4) + 1]]

QualSeqs(n) == UNION {[1..k -> QualValues] : k \in 0..n}

MkRead(id, quals) == [id |-> id, seq |-> Residues(Len(quals)), quals |-> quals]

\* ------------------------------------------------------------ python helpers
Min2(a, b) == IF a < b THEN a ELSE b

\* s[a:b] for 0 <= a
PySlice(s, a, b) == SubSeq(s, a + 1, Min2(b, Len(s)))

RECURSIVE Sum(_)
Sum(s) == IF s = <<>> THEN 0 ELSE Head(s) + Sum(Tail(s))

\* the value of an optional argument that was given ({} is None)
Given(opt) == CHOOSE v \in opt : TRUE

NoRecord == [id |-> 0, seq |-> <<>>, quals |-> <<>>]

\* return 0, 0, None
Discarded == [kind |-> "Discarded", left_trim |-> 0, right_trim |-> 0,
              record |-> NoRecord]

\* return left_trim, right_trim, trimmed_record
Kept(left_trim, right_trim, trimmed_record) ==
    [kind |-> "Kept", left_trim |-> left_trim, right_trim |-> right_trim,
     record |-> trimmed_record]

\* an exception leaving the function
Raised(name) == [kind |-> name, left_trim |-> 0, right_trim |-> 0,
                 record |-> NoRecord]

\* SeqRecord(Seq(str(trimmed_seq)), id=record.id, ..., trimmed_qual)
SeqRecord(record, trimmed_seq, trimmed_qual) ==
    [id |-> record.id, seq |-> trimmed_seq, quals |-> trimmed_qual]

\* ------------------------------------------------------- trim_sequence_base
\* while left < len(quals) and quals[left] < base_threshold: left += 1
RECURSIVE LeftScanBase(_, _, _)
LeftScanBase(quals, base_threshold, left) ==
    IF left < Len(quals) /\ quals[left + 1] < base_threshold
    THEN LeftScanBase(quals, base_threshold, left + 1)
    ELSE left

\* while right >= 0 and quals[right] < base_threshold: right -= 1
RECURSIVE RightScanBase(_, _, _)
RightScanBase(quals, base_threshold, right) ==
    IF right >= 0 /\ quals[right + 1] < base_threshold
    THEN RightScanBase(quals, base_threshold, right - 1)
    ELSE right

\* mutant: the reported right trim is off by one
trim_sequence_base_rtrim(record, base_threshold) ==
    LET quals == record.quals
        left  == LeftScanBase(quals, base_threshold, 0)
        right == RightScanBase(quals, base_threshold, Len(quals) - 1)
    IN  IF left > right
        THEN Discarded
        ELSE Kept(left, Len(record.seq) - right,
                  SeqRecord(record, PySlice(record.seq, left, right + 1),
                            PySlice(quals, left, right + 1)))

\* mutant: a score equal to the threshold is trimmed too
trim_sequence_base_le(record, base_threshold) ==
    LET quals == record.quals
        left  == LeftScanBase(quals, base_threshold + 1, 0)
        right == RightScanBase(quals, base_threshold + 1, Len(quals) - 1)
    IN  IF left > right
        THEN Discarded
        ELSE Kept(left, Len(record.seq) - right - 1,
                  SeqRecord(record, PySlice(record.seq, left, right + 1),
                            PySlice(quals, left, right + 1)))

\* mutant: the slice drops the last retained base (seq[left:right])
trim_sequence_base_slice(record, base_threshold) ==
    LET quals == record.quals
        left  == LeftScanBase(quals, base_threshold, 0)
        right == RightScanBase(quals, base_threshold, Len(quals) - 1)
    IN  IF left > right
        THEN Discarded
        ELSE Kept(left, Len(record.seq) - right - 1,
                  SeqRecord(record, PySlice(record.seq, left, right),
                            PySlice(quals, left, right)))

\* mutant: the left scan starts at index 1
trim_sequence_base_left1(record, base_threshold) ==
    LET quals == record.quals
        left  == LeftScanBase(quals, base_threshold, 1)
        right == RightScanBase(quals, base_threshold, Len(quals) - 1)
    IN  IF left > right
        THEN Discarded
        ELSE Kept(left, Len(record.seq) - right - 1,
                  SeqRecord(record, PySlice(record.seq, left, right + 1),
                            PySlice(quals, left, right + 1)))

trim_sequence_base(record, base_threshold) ==
    LET quals == record.quals
        left  == LeftScanBase(quals, base_threshold, 0)
        right == RightScanBase(quals, base_threshold, Len(quals) - 1)
    IN  IF left > right
        THEN Discarded
        ELSE Kept(left, Len(record.seq) - right - 1,
                  SeqRecord(record, PySlice(record.seq, left, right + 1),
                            PySlice(quals, left, right + 1)))

\* ----------------------------------------------------- trim_sequence_window
\* mutant: a mean equal to the threshold does not pass
WindowPasses_gt(window, window_size, window_threshold) ==
    Sum(window) > window_threshold * window_size

\* sum(window) / window_size >= window_threshold, for window_size >= 1
\* (true division of integers: the quotient is compared exactly)
WindowPasses(window, window_size, window_threshold) ==
    Sum(window) >= window_threshold * window_size

\* while left <= seq_len - window_size: ... break / left += 1
RECURSIVE LeftScanWindow(_, _, _, _)
LeftScanWindow(quals, window_threshold, window_size, left) ==
    IF left <= Len(quals) - window_size
    THEN IF WindowPasses(PySlice(quals, left, left + window_size),
                         window_size, window_threshold)
         THEN left
         ELSE LeftScanWindow(quals, window_threshold, window_size, left + 1)
    ELSE left

\* while right >= window_size: ... break / right -= 1
RECURSIVE RightScanWindow(_, _, _, _)
RightScanWindow(quals, window_threshold, window_size, right) ==
    IF right >= window_size
    THEN IF WindowPasses(PySlice(quals, right - window_size, right),
                         window_size, window_threshold)
         THEN right
         ELSE RightScanWindow(quals, window_threshold, window_size, right - 1)
    ELSE right

\* mutant: returns right instead of seq_len - right
trim_sequence_window_rtrim(record, window_threshold, window_size) ==
    LET quals   == record.quals
        seq_len == Len(quals)
        left    == LeftScanWindow(quals, window_threshold, window_size, 0)
        right   == RightScanWindow(quals, window_threshold, window_size, seq_len)
    IN  IF window_size = 0
        THEN Raised("ZeroDivisionError")
        ELSE IF left > right - window_size
        THEN Discarded
        ELSE Kept(left, right,
                  SeqRecord(record, PySlice(record.seq, left, right),
                            PySlice(quals, left, right)))

\* mutant: the right scan starts one base short of the end
trim_sequence_window_rstart(record, window_threshold, window_size) ==
    LET quals   == record.quals
        seq_len == Len(quals)
        left    == LeftScanWindow(quals, window_threshold, window_size, 0)
        right   == RightScanWindow(quals, window_threshold, window_size,
                                   seq_len - 1)
    IN  IF window_size = 0
        THEN Raised("ZeroDivisionError")
        ELSE IF left > right - window_size
        THEN Discarded
        ELSE Kept(left, seq_len - right,
                  SeqRecord(record, PySlice(record.seq, left, right),
                            PySlice(quals, left, right)))

\* With window_size = 0 the first test of the left loop, 0 <= seq_len, is
\* true for every read and sum([]) / 0 raises ZeroDivisionError.
trim_sequence_window(record, window_threshold, window_size) ==
    LET quals   == record.quals
        seq_len == Len(quals)
        left    == LeftScanWindow(quals, window_threshold, window_size, 0)
        right   == RightScanWindow(quals, window_threshold, window_size, seq_len)
    IN  IF window_size = 0
        THEN Raised("ZeroDivisionError")
        ELSE IF left > right - window_size
        THEN Discarded
        ELSE Kept(left, seq_len - right,
                  SeqRecord(record, PySlice(record.seq, left, right),
                            PySlice(quals, left, right)))

\* ------------------------------------------------------------ process_fastq
\* stats = defaultdict(int); stats['per_sequence'] = []
StatsInit == [total_sequences |-> 0, discarded_sequences |-> 0,
              total_bases_trimmed |-> 0, total_bases_remaining |-> 0,
              per_sequence |-> <<>>]

\* the if / elif that picks the trimmer; with neither threshold given no
\* branch binds trimmed_record and its first use raises UnboundLocalError
SelectTrimmer(record, ns) ==
    IF ns.base_threshold # {}
    THEN [method |-> "base",
          res |-> trim_sequence_base(record, Given(ns.base_threshold))]
    ELSE IF ns.window_threshold # {}
    THEN [method |-> "window",
          res |-> trim_sequence_window(record, Given(ns.window_threshold),
                                       ns.window_size)]
    ELSE [method |-> "", res |-> Raised("UnboundLocalError")]

\* stats['total_sequences'] += 1
CountRecord(st) == [st EXCEPT !.total_sequences = @ + 1]

\* mutant: a discarded read is charged to total_bases_trimmed
RecordOutcome_charge(st, record, res, method) ==
    LET original_length == Len(record.seq)
        trimmed_length  == Len(res.record.seq)
    IN  IF res.kind = "Discarded"
        THEN [st EXCEPT !.discarded_sequences = @ + 1,
                        !.total_bases_trimmed = @ + original_length]
        ELSE [st EXCEPT
                !.total_bases_trimmed = @ + (original_length - trimmed_length),
                !.total_bases_remaining = @ + trimmed_length,
                !.per_sequence = Append(@,
                    [id |-> res.record.id,
                     original_length |-> original_length,
                     trimmed_length |-> trimmed_length,
                     bases_trimmed |-> original_length - trimmed_length,
                     left_trim |-> res.left_trim,
                     right_trim |-> res.right_trim,
                     method |-> method])]

\* the statistics update of one loop iteration, after the trimmer returned
RecordOutcome(st, record, res, method) ==
    LET original_length == Len(record.seq)
        trimmed_length  == Len(res.record.seq)
    IN  IF res.kind = "Discarded"
        THEN [st EXCEPT !.discarded_sequences = @ + 1]
        ELSE [st EXCEPT
                !.total_bases_trimmed = @ + (original_length - trimmed_length),
                !.total_bases_remaining = @ + trimmed_length,
                !.per_sequence = Append(@,
                    [id |-> res.record.id,
                     original_length |-> original_length,
                     trimmed_length |-> trimmed_length,
                     bases_trimmed |-> original_length - trimmed_length,
                     left_trim |-> res.left_trim,
                     right_trim |-> res.right_trim,
                     method |-> method])]

\* mutant: the kept record is put at the front of the list
AppendOutput_front(out, res) ==
    IF res.kind = "Discarded" THEN out ELSE <<res.record>> \o out

\* if trimmed_record is None: continue ... output_records.append(trimmed_record)
AppendOutput(out, res) ==
    IF res.kind = "Discarded" THEN out ELSE Append(out, res.record)

\* --------------------------------------------------------------------- main
\* mutant: the group is required but not mutually exclusive
ParserAccepts_any(ns) ==
    Cardinality(ns.base_threshold) + Cardinality(ns.window_threshold) >= 1

\* parser.add_mutually_exclusive_group(required=True): parse_args exits with
\* an error unless exactly one of --base-threshold, --window-threshold is given
ParserAccepts(ns) ==
    Cardinality(ns.base_threshold) + Cardinality(ns.window_threshold) = 1

Optional(S) == {{}} \cup {{v} : v \in S}

\* the command lines tried
CommandLines == [base_threshold : Optional(CliThresholds),
                 window_threshold : Optional(CliThresholds),
                 window_size : CliWindowSizes]

\* ------------------------------------------------------------------- state
VARIABLES
    pc,              \* "main", "rejected", "loop", "crashed", "done"
    args,            \* the command line: base_threshold, window_threshold, window_size
    consumed,        \* the records SeqIO.parse has yielded so far
    stats,           \* process_fastq's stats
    output_records,  \* process_fastq's output_records
    written,         \* the records SeqIO.write put in the output file
    raised,          \* the exception that ended the run, "" if none
    tpc,             \* single call: "ready", "trimmed", "retrimmed"
    call,            \* single call: record, threshold, window_size
    method,          \* single call: "base" or "window"
    result,          \* single call: what the trimmer returned
    retrim           \* single call: the trimmer applied to result's record

pipevars == <<pc, args, consumed, stats, output_records, written, raised>>
callvars == <<tpc, call, method, result, retrim>>
vars == <<pipevars, callvars>>

PipeIdle == /\ pc = "idle"
            /\ args = [base_threshold |-> {}, window_threshold |-> {},
                       window_size |-> 0]
            /\ consumed = <<>>
            /\ stats = StatsInit
            /\ output_records = <<>>
            /\ written = <<>>
            /\ raised = ""

CallIdle == /\ tpc = "idle"
            /\ call = [record |-> NoRecord, threshold |-> 0, window_size |-> 0]
            /\ method = ""
            /\ result = Discarded
            /\ retrim = Discarded

\* ------------------------------------------------- the program, from main
Init == /\ pc = "main"
        /\ args \in CommandLines
        /\ consumed = <<>>
        /\ stats = StatsInit
        /\ output_records = <<>>
        /\ written = <<>>
        /\ raised = ""
        /\ CallIdle

\* args = parser.parse_args(), then the call of process_fastq up to its loop
ParseArgs ==
    /\ pc = "main"
    /\ pc' = IF ParserAccepts(args) THEN "loop" ELSE "rejected"
    /\ UNCHANGED <<args, consumed, stats, output_records, written, raised>>
    /\ UNCHANGED callvars

\* one iteration of: for record in SeqIO.parse(handle, "fastq")
ProcessRecord ==
    /\ pc = "loop"
    /\ Len(consumed) < MaxReads
    /\ \E quals \in QualSeqs(MaxPipeLen) :
         LET record  == MkRead(Len(consumed) + 1, quals)
             sel     == SelectTrimmer(record, args)
             counted == CountRecord(stats)
         IN  /\ consumed' = Append(consumed, record)
             /\ IF sel.res.kind \in {"Kept", "Discarded"}
                THEN /\ stats' = RecordOutcome(counted, record, sel.res, sel.method)
                     /\ output_records' = AppendOutput(output_records, sel.res)
                     /\ UNCHANGED <<pc, raised>>
                ELSE /\ stats' = counted
                     /\ pc' = "crashed"
                     /\ raised' = sel.res.kind
                     /\ UNCHANGED output_records
    /\ UNCHANGED <<args, written>>
    /\ UNCHANGED callvars

\* the parser is exhausted: SeqIO.write(output_records, handle, "fastq")
WriteOutput ==
    /\ pc = "loop"
    /\ written' = output_records
    /\ pc' = "done"
    /\ UNCHANGED <<args, consumed, stats, output_records, raised>>
    /\ UNCHANGED callvars

Next == ParseArgs \/ ProcessRecord \/ WriteOutput

Spec == Init /\ [][Next]_vars

\* ------------------------------------------------ one trimmer call at a time
InitTrim == /\ PipeIdle
            /\ tpc = "ready"
            /\ call \in [record : {MkRead(1, q) : q \in QualSeqs(MaxLen)},
                         threshold : Thresholds,
                         window_size : 0..MaxWindow]
            /\ method = ""
            /\ result = Discarded
            /\ retrim = Discarded

ApplyTrimmer(m, record, c) ==
    IF m = "base"
    THEN trim_sequence_base(record, c.threshold)
    ELSE trim_sequence_window(record, c.threshold, c.window_size)

TrimBase ==
    /\ tpc = "ready"
    /\ method' = "base"
    /\ result' = ApplyTrimmer("base", call.record, call)
    /\ tpc' = "trimmed"
    /\ UNCHANGED <<call, retrim>>
    /\ UNCHANGED pipevars

TrimWindow ==
    /\ tpc = "ready"
    /\ method' = "window"
    /\ result' = ApplyTrimmer("window", call.record, call)
    /\ tpc' = "trimmed"
    /\ UNCHANGED <<call, retrim>>
    /\ UNCHANGED pipevars

\* the same trimmer, with the same parameters, on the record it returned
TrimAgain ==
    /\ tpc = "trimmed"
    /\ result.kind = "Kept"
    /\ retrim' = ApplyTrimmer(method, result.record, call)
    /\ tpc' = "retrimmed"
    /\ UNCHANGED <<call, method, result>>
    /\ UNCHANGED pipevars

NextTrim == TrimBase \/ TrimWindow \/ TrimAgain

SpecTrim == InitTrim /\ [][NextTrim]_vars

\* =================================================================== claims
Min(S) == CHOOSE x \in S : \A y \in S : x <= y
Max(S) == CHOOSE x \in S : \A y \in S : x >= y

Called == tpc \in {"trimmed", "retrimmed"}

\* C1: whenever either trimmer returns Kept (left_trim, right_trim, trimmed),
\* the trimmed sequence and qualities are the contiguous slice
\* original[left_trim : len(original) - right_trim], so that
\* len(trimmed) + left_trim + right_trim = len(original).
C1_KeptIsEndClipped ==
    (Called /\ result.kind = "Kept") =>
        LET orig == call.record
            n    == Len(orig.seq)
        IN  /\ result.left_trim >= 0
            /\ result.right_trim >= 0
            /\ result.record.seq =
                 SubSeq(orig.seq, result.left_trim + 1, n - result.right_trim)
            /\ result.record.quals =
                 SubSeq(orig.quals, result.left_trim + 1, n - result.right_trim)
            /\ Len(result.record.seq) + result.left_trim + result.right_trim = n
            /\ Len(result.record.quals) = Len(result.record.seq)

C1_Witness ==
    /\ tpc = "trimmed"
    /\ method = "window"
    /\ result.kind = "Kept"
    /\ result.left_trim > 0
    /\ result.right_trim > 0

\* the 1-based positions whose score meets the threshold
GoodBases == {i \in 1..Len(call.record.quals) :
                 call.record.quals[i] >= call.threshold}

\* C2: trim_sequence_base returns Discarded exactly when every score is
\* strictly below T (the empty read included); otherwise Kept with left_trim
\* the first index whose score is >= T, right_trim = len - j - 1 for the last
\* such index j, and the retained slice [i, j]; a score equal to T is kept.
C2_BaseTrim ==
    (Called /\ method = "base") =>
        /\ (result.kind = "Discarded") <=> (GoodBases = {})
        /\ (GoodBases # {}) =>
             /\ result.kind = "Kept"
             /\ result.left_trim = Min(GoodBases) - 1
             /\ result.right_trim = Len(call.record.quals) - Max(GoodBases)
             /\ result.record.quals =
                  SubSeq(call.record.quals, Min(GoodBases), Max(GoodBases))
             /\ result.record.seq =
                  SubSeq(call.record.seq, Min(GoodBases), Max(GoodBases))

C2_Witness ==
    /\ tpc = "trimmed"
    /\ method = "base"
    /\ result.kind = "Kept"
    /\ result.left_trim > 0
    /\ result.right_trim > 0
    /\ Head(result.record.quals) = call.threshold

\* the 0-based starts p of the full windows [p, p+w) whose mean is >= T
GoodStarts ==
    {p \in 0..(Len(call.record.quals) - call.window_size) :
        Sum(SubSeq(call.record.quals, p + 1, p + call.window_size))
            >= call.threshold * call.window_size}

\* C3: for window_size w >= 1, trim_sequence_window returns Kept exactly when
\* some full window has mean >= T (a mean equal to T qualifies); then
\* left_trim is the smallest such window start L, right_trim = n - R for the
\* largest such window end R, and the retained slice is [L, R).  A read
\* shorter than w is Discarded.
C3_WindowTrim ==
    (Called /\ method = "window" /\ call.window_size >= 1) =>
        LET n == Len(call.record.quals)
            w == call.window_size
        IN  /\ result.kind \in {"Kept", "Discarded"}
            /\ (result.kind = "Kept") <=> (GoodStarts # {})
            /\ (n < w) => result.kind = "Discarded"
            /\ (GoodStarts # {}) =>
                 LET L == Min(GoodStarts)
                     R == Max(GoodStarts) + w
                 IN  /\ result.left_trim = L
                     /\ result.right_trim = n - R
                     /\ result.record.quals = SubSeq(call.record.quals, L + 1, R)
                     /\ result.record.seq = SubSeq(call.record.seq, L + 1, R)

C3_Witness ==
    /\ tpc = "trimmed"
    /\ method = "window"
    /\ call.window_size = 2
    /\ result.kind = "Kept"
    /\ result.left_trim > 0
    /\ result.right_trim > 0
    /\ Sum(SubSeq(result.record.quals, 1, 2)) = call.threshold * 2

\* C4: when a trimmer returns Kept with trimmed read R', the same trimmer with
\* the same parameters on R' returns Kept, left_trim = right_trim = 0 and R'.
C4_Idempotent ==
    (tpc = "retrimmed") => retrim = Kept(0, 0, result.record)

C4_Witness ==
    /\ tpc = "retrimmed"
    /\ method = "window"
    /\ result.left_trim > 0
    /\ result.right_trim > 0
    /\ Len(result.record.seq) > call.window_size

NoneBelow == \A i \in 1..Len(call.record.quals) :
                 call.record.quals[i] >= call.threshold

\* C5 as stated: for reads of any length, from 0 upward, with no score below
\* T, trim_sequence_base returns Kept, left_trim = right_trim = 0 and the
\* read unchanged.
C5_Original ==
    (Called /\ method = "base" /\ NoneBelow) =>
        result = Kept(0, 0, call.record)

\* C5 amended: for reads of length 1 upward with no score below T,
\* trim_sequence_base returns Kept, left_trim = right_trim = 0 and the read
\* unchanged (the empty read is Discarded).
C5_AllAboveUntouched ==
    (Called /\ method = "base" /\ NoneBelow /\ Len(call.record.quals) >= 1) =>
        result = Kept(0, 0, call.record)

C5_Witness ==
    /\ tpc = "trimmed"
    /\ method = "base"
    /\ NoneBelow
    /\ Len(call.record.quals) >= 2
    /\ call.record.quals[1] = call.threshold
    /\ result.kind = "Kept"

\* the read "ACGTACGT" with qualities [10,10,30,30,30,30,10,10], window
\* threshold 25, window size 2
Scenario ==
    /\ Called
    /\ method = "window"
    /\ call.record.seq = <<"A", "C", "G", "T", "A", "C", "G", "T">>
    /\ call.record.quals = <<10, 10, 30, 30, 30, 30, 10, 10>>
    /\ call.threshold = 25
    /\ call.window_size = 2

ScenarioScans ==
    /\ LeftScanWindow(call.record.quals, 25, 2, 0) = 2
    /\ RightScanWindow(call.record.quals, 25, 2, 8) = 6
    /\ result.kind = "Kept"
    /\ result.left_trim = 2
    /\ result.right_trim = 2
    /\ result.record.quals = <<30, 30, 30, 30>>

\* C6 as stated: in the scenario the left scan ends at L=2, the right scan at
\* R=6, the result is Kept with left_trim=2, right_trim=2 and the retained
\* slice [2,6) of the sequence is "TACG".
C6_Original ==
    Scenario => (ScenarioScans /\ result.record.seq = <<"T", "A", "C", "G">>)

\* C6 amended: in the scenario the left scan ends at L=2, the right scan at
\* R=6, the result is Kept with left_trim=2, right_trim=2 and the retained
\* slice [2,6) of the sequence is "GTAC".
C6_WindowScenario ==
    Scenario => (ScenarioScans /\ result.record.seq = <<"G", "T", "A", "C">>)

C6_Witness == Scenario /\ tpc = "trimmed"

WindowMode == args.base_threshold = {} /\ args.window_threshold # {}
BaseMode == args.base_threshold # {} /\ args.window_threshold = {}

\* C7: a run configured for window mode with window_size = 0 is rejected
\* before any read is counted in the statistics or passed to
\* trim_sequence_window, so the mean computation never divides by zero.
C7_ZeroWindowRejected ==
    (WindowMode /\ args.window_size = 0) =>
        /\ stats.total_sequences = 0
        /\ raised # "ZeroDivisionError"

\* C8: a command line that selects both trimming modes, or neither, is
\* rejected when the arguments are parsed and never reaches the per-read loop
\* of process_fastq: no read is counted or trimmed under it.
C8_ExactlyOneMode ==
    (~BaseMode /\ ~WindowMode) =>
        /\ pc \in {"main", "rejected"}
        /\ consumed = <<>>
        /\ stats = StatsInit
        /\ output_records = <<>>
        /\ written = <<>>

C8_Witness ==
    /\ pc = "rejected"
    /\ args.base_threshold # {}
    /\ args.window_threshold # {}

ValidConfig == BaseMode \/ (WindowMode /\ args.window_size >= 1)

\* the trim result of the i-th record read
Outcome(i) == SelectTrimmer(consumed[i], args).res

\* the positions, in arrival order, of the records that were kept
RECURSIVE KeptFrom(_)
KeptFrom(i) ==
    IF i > Len(consumed) THEN <<>>
    ELSE (IF Outcome(i).kind = "Kept" THEN <<i>> ELSE <<>>) \o KeptFrom(i + 1)

RECURSIVE SumTrimmed(_)
SumTrimmed(log) ==
    IF log = <<>> THEN 0
    ELSE (Head(log).original_length - Head(log).trimmed_length)
         + SumTrimmed(Tail(log))

RECURSIVE SumRemaining(_)
SumRemaining(log) ==
    IF log = <<>> THEN 0
    ELSE Head(log).trimmed_length + SumRemaining(Tail(log))

\* C9: after n valid reads under a valid single-mode configuration,
\* total_sequences = n, discarded_sequences counts the Discarded results, the
\* per_sequence log has one entry per Kept read in arrival order (none for a
\* Discarded read), total_bases_trimmed is the sum of original_length -
\* trimmed_length over the log, total_bases_remaining the sum of
\* trimmed_length.
C9_Statistics ==
    (ValidConfig /\ pc \in {"loop", "done"}) =>
        LET n     == Len(consumed)
            kept  == KeptFrom(1)
            log   == stats.per_sequence
        IN  /\ stats.total_sequences = n
            /\ stats.discarded_sequences =
                 Cardinality({i \in 1..n : Outcome(i).kind = "Discarded"})
            /\ Len(log) = stats.total_sequences - stats.discarded_sequences
            /\ Len(log) = Len(kept)
            /\ \A k \in 1..Len(log) :
                 /\ log[k].id = consumed[kept[k]].id
                 /\ log[k].original_length = Len(consumed[kept[k]].seq)
                 /\ log[k].trimmed_length = Len(Outcome(kept[k]).record.seq)
                 /\ log[k].bases_trimmed =
                      log[k].original_length - log[k].trimmed_length
                 /\ log[k].left_trim = Outcome(kept[k]).left_trim
                 /\ log[k].right_trim = Outcome(kept[k]).right_trim
                 /\ log[k].method = IF BaseMode THEN "base" ELSE "window"
            /\ stats.total_bases_trimmed = SumTrimmed(log)
            /\ stats.total_bases_remaining = SumRemaining(log)

C9_Witness ==
    /\ pc = "done"
    /\ ValidConfig
    /\ Len(consumed) = 3
    /\ stats.total_sequences = 3
    /\ stats.discarded_sequences = 1
    /\ Outcome(2).kind = "Discarded"
    /\ Len(stats.per_sequence) = 2
    /\ stats.total_bases_trimmed > 0

\* C10: the records written are exactly the trimmed reads of the Kept inputs,
\* each once and in input order, nothing for a Discarded read; the i-th
\* written record has the id and trimmed length of the i-th per_sequence
\* entry.
C10_OutputOrder ==
    (ValidConfig /\ pc = "done") =>
        LET kept == KeptFrom(1)
        IN  /\ written = [k \in 1..Len(kept) |-> Outcome(kept[k]).record]
            /\ Len(written) = Len(stats.per_sequence)
            /\ \A k \in 1..Len(written) :
                 /\ written[k].id = stats.per_sequence[k].id
                 /\ written[k].id = consumed[kept[k]].id
                 /\ Len(written[k].seq) = stats.per_sequence[k].trimmed_length

C10_Witness ==
    /\ pc = "done"
    /\ ValidConfig
    /\ Len(consumed) = 3
    /\ Len(written) = 2
    /\ written[1].id = 1
    /\ written[2].id = 3
    /\ Len(written[2].seq) < Len(consumed[3].seq)
====
